---- MODULE Spec2Model ----
(***************************************************************************)
(* tetwrap.cpp: tetrahedralize_core and compute_boundary_face_tris as a    *)
(* state machine.  One call of tetrahedralize_core is one behaviour: the   *)
(* arguments are fixed by the initial state, the external generator        *)
(* (tetrahedralize) is an environment step that either throws or fills     *)
(* `out`, and the result aggregate is built field by field.                *)
(***************************************************************************)
EXTENDS Integers, Sequences, FiniteSets, TLC

VARIABLES
    input,               \* the arguments of tetrahedralize_core
    pc,                  \* position in tetrahedralize_core
    err,                 \* what() of the exception thrown, "" when none
    invoked,             \* number of calls of tetrahedralize made
    facetlist,           \* in.facetlist: one vertex list per facet built
    facetmarkerlist,     \* in.facetmarkerlist
    fi, bi,              \* loop counters of the two facet loops
    sw,                  \* std::vector<char> sw
    out,                 \* tetgenio out
    res,                 \* TetwrapIO res
    triface_marker_map,  \* std::map<std::array<int,3>, int>
    bfT, bfB, bfi, bflf, bfb, \* T, B, i, lf, b of compute_boundary_face_tris
    faces,               \* the (B,3) array compute_boundary_face_tris fills
    oob                  \* a write past the end of faces happened

vars == <<input, pc, err, invoked, facetlist, facetmarkerlist, fi, bi, sw,
          out, res, triface_marker_map, bfT, bfB, bfi, bflf, bfb, faces, oob>>

---------------------------------------------------------------------------
(* Bounds of the explored inputs and generator outputs *)

MaxN == 3
MaxM == 2
MaxB == 2
MaxLoop == 3
MaxSw == 3
MaxK == 2
MaxF == 2
MaxCount == 1

---------------------------------------------------------------------------
(* Machine integers and bytes *)

IntMax == 2147483647
IntMin == (-2147483647) - 1

\* raw_marker + 1 on a 32-bit int: the sum modulo 2^32, in two's complement
Int32Succ(x) == IF x = IntMax THEN IntMin ELSE x + 1

NUL == 0
CharN == 110
CharF == 102

---------------------------------------------------------------------------
(* Arrays and buffers *)

\* a numpy array handed in or out: kind "none" is Python's None
NoneVal == [kind |-> "none", ndim |-> 0, shape |-> <<>>, data |-> <<>>]
Unset == [kind |-> "unset", ndim |-> 0, shape |-> <<>>, data |-> <<>>]
\* py::array_t<T>(): one dimension, no element
EmptyArray == [kind |-> "array", ndim |-> 1, shape |-> <<0>>, data |-> <<>>]
Array1(d) == [kind |-> "array", ndim |-> 1, shape |-> <<Len(d)>>, data |-> d]
Array2(rows, m) == [kind |-> "array", ndim |-> 2, shape |-> <<Len(rows), m>>, data |-> rows]

IsNone(a) == a.kind = "none"

\* a native buffer of the generator: a null pointer, or the elements behind it
NullBuf == [null |-> TRUE, data |-> <<>>]
Buf(d) == [null |-> FALSE, data |-> d]
Ramp(n) == [k \in 1..n |-> k]

to_array_f64(src, n, m) ==
    IF src.null \/ n <= 0 \/ m <= 0 THEN EmptyArray
    ELSE Array2([r \in 1..n |-> [j \in 1..m |-> src.data[(r - 1) * m + j]]], m)

to_array_i32(src, n, m) ==
    IF src.null \/ n <= 0 \/ m <= 0 THEN EmptyArray
    ELSE Array2([r \in 1..n |-> [j \in 1..m |-> src.data[(r - 1) * m + j]]], m)

to_vector_i32(src, n) ==
    IF src.null \/ n <= 0 THEN EmptyArray
    ELSE Array1([r \in 1..n |-> src.data[r]])

to_vector_f64(src, n) ==
    IF src.null \/ n <= 0 THEN EmptyArray
    ELSE Array1([r \in 1..n |-> src.data[r]])

---------------------------------------------------------------------------
(* tetrahedralize_core: the checks before anything is built *)

NumVertices(inp) == inp.vertices.shape[1]
NumFacets(inp) == inp.mesh_facets.shape[1]
NumLoops(inp) == Len(inp.boundary_facets)

VerticesShapeOK(inp) == inp.vertices.ndim = 2 /\ inp.vertices.shape[2] = 3
FacetsShapeOK(inp) == inp.mesh_facets.ndim = 2 /\ inp.mesh_facets.shape[2] = 3

IndexInRangeOffByOne(vid, N) == ~(vid < 0 \/ vid > N)
IndexInRange(vid, N) == ~(vid < 0 \/ vid >= N)

\* the first check that fails, as the message thrown; "" when all pass
CheckInput(inp) ==
    IF ~VerticesShapeOK(inp) THEN "vertices must have shape (N,3)"
    ELSE IF ~FacetsShapeOK(inp) THEN "mesh_facets must have shape (M,3)"
    ELSE IF NumLoops(inp) < 1 THEN "boundary_facets must contain at least one polygon"
    ELSE IF ~IsNone(inp.mesh_facet_markers) /\ inp.mesh_facet_markers.ndim # 1
        THEN "mesh_facet_markers must be a 1D array"
    ELSE IF ~IsNone(inp.mesh_facet_markers)
            /\ inp.mesh_facet_markers.shape[1] # NumFacets(inp)
        THEN "mesh_facet_markers length must match number of mesh facets"
    ELSE IF NumVertices(inp) <= 0 THEN "vertices: N <= 0"
    ELSE IF NumFacets(inp) < 0 THEN "mesh_facets: M < 0"
    ELSE IF \E r \in 1..NumFacets(inp) : \E k \in 1..3 :
                ~IndexInRange(inp.mesh_facets.data[r][k], NumVertices(inp))
        THEN "mesh_facets index out of range"
    ELSE IF \E p \in 1..NumLoops(inp) :
                \/ Len(inp.boundary_facets[p]) < 3
                \/ \E j \in 1..Len(inp.boundary_facets[p]) :
                       ~IndexInRange(inp.boundary_facets[p][j], NumVertices(inp))
        THEN "boundary_facets: short polygon or index out of range"
    ELSE ""

Validate ==
    /\ pc = "check"
    /\ LET msg == CheckInput(input)
           T == NumFacets(input) + NumLoops(input)
       IN
         /\ err' = msg
         /\ pc' = IF msg = "" THEN "facets" ELSE "error"
         \* new tetgenio::facet[T]() and new int[T]; the markers are not read
         \* before the loops below have written them
         /\ facetlist' = IF msg = "" THEN [k \in 1..T |-> <<>>] ELSE facetlist
         /\ facetmarkerlist' = IF msg = "" THEN [k \in 1..T |-> 0] ELSE facetmarkerlist
    /\ UNCHANGED <<input, invoked, fi, bi, sw, out, res, triface_marker_map,
                   bfT, bfB, bfi, bflf, bfb, faces, oob>>

---------------------------------------------------------------------------
(* tetrahedralize_core: the facet list and its markers *)

\* marker_value of mesh facet f (0-based)
MeshMarkerValue(inp, f) ==
    IF IsNone(inp.mesh_facet_markers) THEN -1
    ELSE LET raw_marker == inp.mesh_facet_markers.data[f + 1] IN
           IF raw_marker < 0 THEN -1 ELSE Int32Succ(raw_marker)

\* marker of boundary polygon p (0-based)
LoopMarkerValue(p) == -(p + 2)

AssembleMeshFacet ==
    /\ pc = "facets"
    /\ fi < NumFacets(input)
    /\ facetlist' = [facetlist EXCEPT ![fi + 1] =
                        << input.mesh_facets.data[fi + 1][1],
                           input.mesh_facets.data[fi + 1][2],
                           input.mesh_facets.data[fi + 1][3] >>]
    /\ facetmarkerlist' = [facetmarkerlist EXCEPT ![fi + 1] = MeshMarkerValue(input, fi)]
    /\ fi' = fi + 1
    /\ UNCHANGED <<input, pc, err, invoked, bi, sw, out, res, triface_marker_map,
                   bfT, bfB, bfi, bflf, bfb, faces, oob>>

AssembleBoundaryFacet ==
    /\ pc = "facets"
    /\ fi = NumFacets(input)
    /\ bi < NumLoops(input)
    /\ LET M == NumFacets(input)
           loop == input.boundary_facets[bi + 1]
       IN
         /\ facetlist' = [facetlist EXCEPT ![M + bi + 1] = [j \in 1..Len(loop) |-> loop[j]]]
         /\ facetmarkerlist' = [facetmarkerlist EXCEPT ![M + bi + 1] = LoopMarkerValue(bi)]
    /\ bi' = bi + 1
    /\ UNCHANGED <<input, pc, err, invoked, fi, sw, out, res, triface_marker_map,
                   bfT, bfB, bfi, bflf, bfb, faces, oob>>

---------------------------------------------------------------------------
(* tetrahedralize_core: the switch buffer *)

IsSwitchKind(k) == k \in {"str", "bytes", "array"}

\* the payload's bytes followed by the terminator
SwitchBuffer(payload) == Append(payload.data, NUL)

BuildSwitchBuffer ==
    /\ pc = "facets"
    /\ fi = NumFacets(input)
    /\ bi = NumLoops(input)
    /\ IF IsSwitchKind(input.tetgen_switches.kind)
         THEN /\ sw' = SwitchBuffer(input.tetgen_switches)
              /\ pc' = "flags"
              /\ err' = err
         ELSE /\ sw' = sw
              /\ pc' = "error"
              /\ err' = "tetgen_switches must be str, bytes, or 1D byte array"
    /\ UNCHANGED <<input, invoked, facetlist, facetmarkerlist, fi, bi, out, res,
                   triface_marker_map, bfT, bfB, bfi, bflf, bfb, faces, oob>>

\* index of the first NUL of s, Len(s) + 1 when it has none
FirstNul(s) ==
    IF \E k \in 1..Len(s) : s[k] = NUL
      THEN CHOOSE k \in 1..Len(s) : s[k] = NUL /\ \A j \in 1..(k - 1) : s[j] # NUL
      ELSE Len(s) + 1

\* the scan of sw for flag c, stopped by the first NUL
HasFlag(s, c) == \E k \in 1..(FirstNul(s) - 1) : s[k] = c

EnsuredSwitches(s, compute_boundary_faces) ==
    IF ~compute_boundary_faces THEN s
    ELSE LET has_n == HasFlag(s, CharN)
             has_f == HasFlag(s, CharF)
             s0 == IF s # <<>> /\ s[Len(s)] = NUL THEN SubSeq(s, 1, Len(s) - 1) ELSE s
             s1 == IF ~has_n THEN Append(s0, CharN) ELSE s0
             s2 == IF ~has_f THEN Append(s1, CharF) ELSE s1
         IN IF ~has_n \/ ~has_f THEN Append(s2, NUL) ELSE s

EnsureFlags ==
    /\ pc = "flags"
    /\ sw' = EnsuredSwitches(sw, input.compute_boundary_faces)
    /\ pc' = "invoke"
    /\ UNCHANGED <<input, err, invoked, facetlist, facetmarkerlist, fi, bi, out, res,
                   triface_marker_map, bfT, bfB, bfi, bflf, bfb, faces, oob>>

\* what a reader of the char* sw.data() sees: the bytes before the first NUL
CString(s) == SubSeq(s, 1, FirstNul(s) - 1)

---------------------------------------------------------------------------
(* tetrahedralize_core: the call of the generator *)

\* tetrahedralize throws: either catch clause rethrows as std::runtime_error
GeneratorThrows ==
    /\ pc = "invoke"
    /\ invoked' = invoked + 1
    /\ pc' = "error"
    /\ err' = "TetGen failed"
    /\ UNCHANGED <<input, facetlist, facetmarkerlist, fi, bi, sw, out, res,
                   triface_marker_map, bfT, bfB, bfi, bflf, bfb, faces, oob>>

\* tetrahedralize returns, having left g in `out`
GeneratorReturns(g) ==
    /\ pc = "invoke"
    /\ invoked' = invoked + 1
    /\ out' = g
    /\ pc' = "populate"
    /\ UNCHANGED <<input, err, facetlist, facetmarkerlist, fi, bi, sw, res,
                   triface_marker_map, bfT, bfB, bfi, bflf, bfb, faces, oob>>

---------------------------------------------------------------------------
(* tetrahedralize_core: the result fields built before the boundary faces *)

Min3(t) == IF t[1] <= t[2] /\ t[1] <= t[3] THEN t[1]
           ELSE IF t[2] <= t[3] THEN t[2] ELSE t[3]
Max3(t) == IF t[1] >= t[2] /\ t[1] >= t[3] THEN t[1]
           ELSE IF t[2] >= t[3] THEN t[2] ELSE t[3]

UnsortedKey(t) == t
\* std::sort(key.begin(), key.end()) on a std::array<int,3>
SortedKey(t) == << Min3(t), (t[1] + t[2] + t[3]) - Min3(t) - Max3(t), Max3(t) >>

EmptyMap == [k \in {} |-> 0]
\* m[k] = v on a std::map
MapPut(m, k, v) == [x \in (DOMAIN m) \cup {k} |-> IF x = k THEN v ELSE m[x]]

TrifaceRow(o, r) == << o.trifacelist.data[3 * r + 1],
                       o.trifacelist.data[3 * r + 2],
                       o.trifacelist.data[3 * r + 3] >>

\* the map after the first n Output Faces were entered
RECURSIVE MarkerMapAfter(_, _)
MarkerMapAfter(o, n) ==
    IF n = 0 THEN EmptyMap
    ELSE MapPut(MarkerMapAfter(o, n - 1),
                SortedKey(TrifaceRow(o, n - 1)),
                o.trifacemarkerlist.data[n])

TrifaceMarkerMap(o) ==
    IF o.numberoftrifaces > 0 /\ ~o.trifacelist.null /\ ~o.trifacemarkerlist.null
      THEN MarkerMapAfter(o, o.numberoftrifaces)
      ELSE EmptyMap

ResInit ==
    [ points |-> EmptyArray, tets |-> EmptyArray, corners |-> 4, switches |-> <<>>,
      tri_faces |-> Unset, tri_markers |-> Unset,
      boundary_tri_faces |-> Unset, boundary_tri_markers |-> Unset,
      edges |-> Unset, edge_markers |-> Unset, neighbors |-> Unset,
      point_markers |-> Unset, tet_attr |-> Unset, tet_vol |-> Unset ]

Populate ==
    /\ pc = "populate"
    /\ LET faces_present == out.numberoftrifaces > 0 /\ ~out.trifacelist.null
           edges_present == out.numberofedges > 0 /\ ~out.edgelist.null
       IN res' = [res EXCEPT
            !.points = to_array_f64(out.pointlist, out.numberofpoints, 3),
            !.tets = to_array_i32(out.tetrahedronlist, out.numberoftetrahedra,
                                  out.numberofcorners),
            !.corners = out.numberofcorners,
            !.switches = IF input.tetgen_switches.kind = "str"
                           THEN input.tetgen_switches.data ELSE <<>>,
            !.tri_faces = IF faces_present
                            THEN to_array_i32(out.trifacelist, out.numberoftrifaces, 3)
                            ELSE NoneVal,
            !.tri_markers = IF faces_present /\ ~out.trifacemarkerlist.null
                              THEN to_vector_i32(out.trifacemarkerlist, out.numberoftrifaces)
                              ELSE NoneVal,
            !.edges = IF edges_present
                        THEN to_array_i32(out.edgelist, out.numberofedges, 2)
                        ELSE NoneVal,
            !.edge_markers = IF edges_present /\ ~out.edgemarkerlist.null
                               THEN to_vector_i32(out.edgemarkerlist, out.numberofedges)
                               ELSE NoneVal,
            !.neighbors = IF ~out.neighborlist.null
                            THEN to_array_i32(out.neighborlist, out.numberoftetrahedra, 4)
                            ELSE NoneVal ]
    /\ triface_marker_map' = TrifaceMarkerMap(out)
    /\ pc' = "boundary"
    /\ UNCHANGED <<input, err, invoked, facetlist, facetmarkerlist, fi, bi, sw, out,
                   bfT, bfB, bfi, bflf, bfb, faces, oob>>

---------------------------------------------------------------------------
(* compute_boundary_face_tris, called from tetrahedralize_core *)

DerivesAlways(compute_boundary_faces, neighbors) == ~IsNone(neighbors)
\* the condition under which the boundary faces are derived
DerivesBoundary(compute_boundary_faces, neighbors) ==
    compute_boundary_faces /\ ~IsNone(neighbors)

\* local face patterns: face opposite vertex k
faces_of_tet_swapped == << <<1, 2, 3>>, <<0, 2, 3>>, <<0, 1, 3>>, <<0, 2, 1>> >>
faces_of_tet == << <<1, 2, 3>>, <<0, 3, 2>>, <<0, 1, 3>>, <<0, 2, 1>> >>

\* the shape checks of compute_boundary_face_tris: the message thrown, or ""
CheckShapes(tets_, nbrs_) ==
    IF tets_.ndim # 2 \/ tets_.shape[2] # 4 THEN "tets must have shape (T,4)"
    ELSE IF nbrs_.ndim # 2 \/ nbrs_.shape[2] # 4 THEN "neighbors must have shape (T,4)"
    ELSE IF tets_.shape[1] # nbrs_.shape[1] THEN "tets and neighbors must have same length"
    ELSE ""

EnterExtractor ==
    /\ pc = "boundary"
    /\ DerivesBoundary(input.compute_boundary_faces, res.neighbors)
    /\ LET msg == CheckShapes(res.tets, res.neighbors) IN
         /\ err' = msg
         /\ pc' = IF msg = "" THEN "pass1" ELSE "error"
         /\ bfT' = IF msg = "" THEN res.tets.shape[1] ELSE bfT
    /\ bfB' = 0
    /\ bfi' = 0
    /\ bflf' = 0
    /\ UNCHANGED <<input, invoked, facetlist, facetmarkerlist, fi, bi, sw, out, res,
                   triface_marker_map, bfb, faces, oob>>

CountsNonPositive(v) == v <= 0
\* the test of the first pass
CountsAsBoundary(v) == v < 0

\* the test of the second pass
EmitsAsBoundary(v) == v < 0

\* nbrs(i, lf), 0-based
Nbr(r, l) == res.neighbors.data[r + 1][l + 1]

\* First pass: one (i, lf) pair per step
CountStep ==
    /\ pc = "pass1"
    /\ bfi < bfT
    /\ bfB' = IF CountsAsBoundary(Nbr(bfi, bflf)) THEN bfB + 1 ELSE bfB
    /\ bflf' = IF bflf = 3 THEN 0 ELSE bflf + 1
    /\ bfi' = IF bflf = 3 THEN bfi + 1 ELSE bfi
    /\ UNCHANGED <<input, pc, err, invoked, facetlist, facetmarkerlist, fi, bi, sw,
                   out, res, triface_marker_map, bfT, bfb, faces, oob>>

\* py::array_t<int> faces({B, 3}): B rows, none written yet (a row is <<>> until
\* the second pass writes it)
Allocate ==
    /\ pc = "pass1"
    /\ bfi = bfT
    /\ faces' = [r \in 1..bfB |-> <<>>]
    /\ bfb' = 0
    /\ bfi' = 0
    /\ bflf' = 0
    /\ pc' = "pass2"
    /\ UNCHANGED <<input, err, invoked, facetlist, facetmarkerlist, fi, bi, sw, out,
                   res, triface_marker_map, bfT, bfB, oob>>

\* Second pass: one (i, lf) pair per step
FillStep ==
    /\ pc = "pass2"
    /\ bfi < bfT
    /\ IF EmitsAsBoundary(Nbr(bfi, bflf))
         THEN LET pat == faces_of_tet[bflf + 1]
                  row == << res.tets.data[bfi + 1][pat[1] + 1],
                            res.tets.data[bfi + 1][pat[2] + 1],
                            res.tets.data[bfi + 1][pat[3] + 1] >>
              IN /\ faces' = IF bfb < Len(faces)
                               THEN [faces EXCEPT ![bfb + 1] = row] ELSE faces
                 /\ oob' = (oob \/ bfb >= Len(faces))
                 /\ bfb' = bfb + 1
         ELSE UNCHANGED <<faces, oob, bfb>>
    /\ bflf' = IF bflf = 3 THEN 0 ELSE bflf + 1
    /\ bfi' = IF bflf = 3 THEN bfi + 1 ELSE bfi
    /\ UNCHANGED <<input, pc, err, invoked, facetlist, facetmarkerlist, fi, bi, sw,
                   out, res, triface_marker_map, bfT, bfB>>

---------------------------------------------------------------------------
(* tetrahedralize_core: the boundary faces, their markers, the last fields *)

\* markers(i) for the boundary face row f
ReconciledMarker(m, f) ==
    IF SortedKey(f) \in DOMAIN m THEN m[SortedKey(f)] ELSE 0

\* compute_boundary_face_tris has returned `faces`
Reconcile ==
    /\ pc = "pass2"
    /\ bfi = bfT
    /\ res' = [res EXCEPT
            !.boundary_tri_faces = Array2(faces, 3),
            !.boundary_tri_markers =
                IF DOMAIN triface_marker_map # {}
                  THEN Array1([r \in 1..Len(faces) |->
                                  ReconciledMarker(triface_marker_map, faces[r])])
                  ELSE NoneVal ]
    /\ pc' = "tail"
    /\ UNCHANGED <<input, err, invoked, facetlist, facetmarkerlist, fi, bi, sw, out,
                   triface_marker_map, bfT, bfB, bfi, bflf, bfb, faces, oob>>

SkipBoundary ==
    /\ pc = "boundary"
    /\ ~DerivesBoundary(input.compute_boundary_faces, res.neighbors)
    /\ res' = [res EXCEPT !.boundary_tri_faces = NoneVal,
                          !.boundary_tri_markers = NoneVal]
    /\ pc' = "tail"
    /\ UNCHANGED <<input, err, invoked, facetlist, facetmarkerlist, fi, bi, sw, out,
                   triface_marker_map, bfT, bfB, bfi, bflf, bfb, faces, oob>>

\* point markers, attributes, volumes, and the return of res
Finish ==
    /\ pc = "tail"
    /\ res' = [res EXCEPT
            !.point_markers = IF ~out.pointmarkerlist.null
                                THEN to_vector_i32(out.pointmarkerlist, out.numberofpoints)
                                ELSE NoneVal,
            !.tet_attr = IF ~out.tetrahedronattributelist.null
                              /\ out.numberoftetrahedronattributes > 0
                           THEN to_array_f64(out.tetrahedronattributelist,
                                             out.numberoftetrahedra,
                                             out.numberoftetrahedronattributes)
                           ELSE NoneVal,
            !.tet_vol = IF ~out.tetrahedronvolumelist.null
                          THEN to_vector_f64(out.tetrahedronvolumelist, out.numberoftetrahedra)
                          ELSE NoneVal ]
    /\ pc' = "done"
    /\ UNCHANGED <<input, err, invoked, facetlist, facetmarkerlist, fi, bi, sw, out,
                   triface_marker_map, bfT, bfB, bfi, bflf, bfb, faces, oob>>

---------------------------------------------------------------------------
(* The calls explored *)

SeqsUpTo(S, n) == UNION { [1..m -> S] : m \in 0..n }

Vertices(n) == [ndim |-> 2, shape |-> <<n, 3>>]
MeshFacets(rows) == [ndim |-> 2, shape |-> <<Len(rows), 3>>, data |-> rows]

Call(n, rows, markers, loops, payload, cbf) ==
    [ vertices |-> Vertices(n), mesh_facets |-> MeshFacets(rows),
      mesh_facet_markers |-> markers, boundary_facets |-> loops,
      tetgen_switches |-> payload, compute_boundary_faces |-> cbf ]

\* vertex indices tried: one below the range, and up to one past the largest N
IdxVals == (-1)..MaxN
\* a triangle with v at position p, and one with three different corners
FacetRows == { [k \in 1..3 |-> IF k = p THEN v ELSE 0] : v \in IdxVals, p \in 1..3 }
                \cup { <<0, 1, 2>> }
\* a polygon of 2..MaxLoop vertices ending in v, and one with three different corners
LoopRows == { [k \in 1..n |-> IF k = n THEN v ELSE 0] : v \in IdxVals, n \in 2..MaxLoop }
                \cup { <<0, 1, 2>> }
RawMarkers == { IntMin, -1, 0, 1, IntMax }
\* NUL, 'f', 'n', 'p'
SwitchBytes == { NUL, CharF, CharN, 112 }

GoodRows(m) == [r \in 1..m |-> IF r % 2 = 1 THEN <<0, 1, 2>> ELSE <<2, 1, 0>>]
GoodLoops == << <<0, 1, 2>> >>
PlainSwitches == [kind |-> "str", data |-> <<112>>]
GoodCall == Call(3, GoodRows(1), NoneVal, GoodLoops, PlainSwitches, TRUE)

---------------------------------------------------------------------------
(* The generator outputs explored *)

\* tetgenio out, as constructed
DefaultOut ==
    [ numberofpoints |-> 0, pointlist |-> NullBuf,
      numberoftetrahedra |-> 0, numberofcorners |-> 4, tetrahedronlist |-> NullBuf,
      numberoftrifaces |-> 0, trifacelist |-> NullBuf, trifacemarkerlist |-> NullBuf,
      numberofedges |-> 0, edgelist |-> NullBuf, edgemarkerlist |-> NullBuf,
      neighborlist |-> NullBuf, pointmarkerlist |-> NullBuf,
      tetrahedronattributelist |-> NullBuf, numberoftetrahedronattributes |-> 0,
      tetrahedronvolumelist |-> NullBuf ]

\* tetrahedron r (0-based): r and r+1 have the same four corners, differently ordered
TetRow(r) == IF r % 2 = 0 THEN <<r, r + 1, r + 2, r + 3>>
             ELSE <<r, r - 1, r + 1, r + 2>>
\* K tetrahedra of c corners each, row-major
TetBuf(K, c) ==
    Buf([k \in 1..(K * c) |->
            LET r == (k - 1) \div c
                j == (k - 1) % c
            IN IF j < 4 THEN TetRow(r)[j + 1] ELSE r + j])
\* rows flattened row-major
FlatRows(rows, m) == [k \in 1..(Len(rows) * m) |-> rows[((k - 1) \div m) + 1][((k - 1) % m) + 1]]

BufOrNull(absent, d) == IF absent THEN NullBuf ELSE Buf(d)

BaseOut ==
    [DefaultOut EXCEPT !.numberofpoints = 4, !.pointlist = Buf(Ramp(12)),
                       !.numberoftetrahedra = 1, !.tetrahedronlist = TetBuf(1, 4)]

\* adjacency entries: no neighbour (negative) or tetrahedron 0
NbrVals == { -1, 0 }
\* Output Faces tried: windings of {1,2,3}, of {0,2,3}, and one no tetrahedron has
TriRows == { <<1, 2, 3>>, <<3, 2, 1>>, <<0, 3, 2>>, <<0, 1, 9>> }
TriMarkers == { -2, -1, 1 }

\* presence of tetrahedra, adjacency, faces and face markers varied
ReturnsPresence ==
    /\ pc = "invoke"
    /\ \E K \in 0..MaxCount, c \in {4, 10}, tn \in BOOLEAN, nn \in BOOLEAN,
          nf \in 0..MaxCount, fn \in BOOLEAN, mn \in BOOLEAN :
          GeneratorReturns([BaseOut EXCEPT
              !.numberoftetrahedra = K, !.numberofcorners = c,
              !.tetrahedronlist = IF tn THEN NullBuf ELSE TetBuf(K, c),
              !.neighborlist = BufOrNull(nn, [k \in 1..(4 * K) |-> -1]),
              !.numberoftrifaces = nf,
              !.trifacelist = BufOrNull(fn, [k \in 1..(3 * nf) |-> k]),
              !.trifacemarkerlist = BufOrNull(mn, [k \in 1..nf |-> -1])])

\* presence of points, edges, point markers, attributes and volumes varied
ReturnsOther ==
    /\ pc = "invoke"
    /\ \E np \in 0..MaxCount, pn \in BOOLEAN, pmn \in BOOLEAN,
          ne \in 0..MaxCount, en \in BOOLEAN, emn \in BOOLEAN,
          K \in 0..MaxCount, na \in 0..MaxCount, an \in BOOLEAN, vn \in BOOLEAN :
          GeneratorReturns([BaseOut EXCEPT
              !.numberofpoints = np, !.pointlist = BufOrNull(pn, Ramp(3 * np)),
              !.pointmarkerlist = BufOrNull(pmn, Ramp(np)),
              !.numberofedges = ne, !.edgelist = BufOrNull(en, Ramp(2 * ne)),
              !.edgemarkerlist = BufOrNull(emn, Ramp(ne)),
              !.numberoftetrahedra = K, !.tetrahedronlist = TetBuf(K, 4),
              !.numberoftetrahedronattributes = na,
              !.tetrahedronattributelist = BufOrNull(an, Ramp(K * na)),
              !.tetrahedronvolumelist = BufOrNull(vn, Ramp(K))])

\* adjacency varied
ReturnsAdjacency ==
    /\ pc = "invoke"
    /\ \E K \in 0..MaxK : \E nb \in [1..(4 * K) -> NbrVals] :
          GeneratorReturns([BaseOut EXCEPT
              !.numberoftetrahedra = K, !.tetrahedronlist = TetBuf(K, 4),
              !.neighborlist = Buf(nb),
              !.numberoftrifaces = 1, !.trifacelist = Buf(<<3, 2, 1>>),
              !.trifacemarkerlist = Buf(<<7>>)])

\* Output Faces and their markers varied, every local face a boundary face
ReturnsFaces ==
    /\ pc = "invoke"
    /\ \E tf \in SeqsUpTo(TriRows \X TriMarkers, MaxF) :
          GeneratorReturns([BaseOut EXCEPT
              !.numberoftetrahedra = 2, !.tetrahedronlist = TetBuf(2, 4),
              !.neighborlist = Buf([k \in 1..8 |-> -1]),
              !.numberoftrifaces = Len(tf),
              !.trifacelist = Buf(FlatRows([r \in 1..Len(tf) |-> tf[r][1]], 3)),
              !.trifacemarkerlist = Buf([r \in 1..Len(tf) |-> tf[r][2]])])

\* a run with adjacency and one labelled face, and a run without adjacency
ReturnsTypical ==
    /\ pc = "invoke"
    /\ \E g \in { [BaseOut EXCEPT !.neighborlist = Buf(<<-1, 0, -1, -1>>),
                                  !.numberoftrifaces = 1,
                                  !.trifacelist = Buf(<<1, 2, 3>>),
                                  !.trifacemarkerlist = Buf(<<-1>>)],
                  BaseOut } :
          GeneratorReturns(g)

---------------------------------------------------------------------------
(* Specifications *)

Start(inp) ==
    /\ input = inp
    /\ pc = "check"
    /\ err = ""
    /\ invoked = 0
    /\ facetlist = <<>>
    /\ facetmarkerlist = <<>>
    /\ fi = 0
    /\ bi = 0
    /\ sw = <<>>
    /\ out = DefaultOut
    /\ res = ResInit
    /\ triface_marker_map = EmptyMap
    /\ bfT = 0
    /\ bfB = 0
    /\ bfi = 0
    /\ bflf = 0
    /\ bfb = 0
    /\ faces = <<>>
    /\ oob = FALSE

\* mesh facets varied
StartFacets ==
    \E n \in 0..MaxN, f \in SeqsUpTo(FacetRows, MaxM) :
        Start(Call(n, f, NoneVal, GoodLoops, PlainSwitches, TRUE))
\* boundary polygons varied
StartLoops ==
    \E n \in 0..MaxN, l \in SeqsUpTo(LoopRows, MaxB) :
        Start(Call(n, GoodRows(1), NoneVal, l, PlainSwitches, TRUE))
\* marker arrays varied: None, 1-D arrays of any tried length, a 2-D array
StartMarkers ==
    \E m \in 0..MaxM, l \in { GoodLoops, << <<0, 1, 2>>, <<2, 1, 0>> >> } :
        \/ Start(Call(3, GoodRows(m), NoneVal, l, PlainSwitches, TRUE))
        \/ \E d \in SeqsUpTo(RawMarkers, MaxM + 1) :
              Start(Call(3, GoodRows(m), Array1(d), l, PlainSwitches, TRUE))
        \/ Start(Call(3, GoodRows(m),
                      [kind |-> "array", ndim |-> 2, shape |-> <<1, 1>>, data |-> <<0>>],
                      l, PlainSwitches, TRUE))
\* configuration payloads varied
StartSwitches ==
    \E c \in BOOLEAN :
        \/ \E k \in { "str", "bytes", "array" }, d \in SeqsUpTo(SwitchBytes, MaxSw) :
              Start([GoodCall EXCEPT !.tetgen_switches = [kind |-> k, data |-> d],
                                     !.compute_boundary_faces = c])
        \/ Start([GoodCall EXCEPT !.tetgen_switches = [kind |-> "other", data |-> <<>>],
                                  !.compute_boundary_faces = c])
\* arrays of the wrong rank or width
StartShapes ==
    \/ \E v \in { [ndim |-> 1, shape |-> <<3>>], [ndim |-> 2, shape |-> <<3, 2>>] } :
          Start([GoodCall EXCEPT !.vertices = v])
    \/ \E f \in { [ndim |-> 1, shape |-> <<3>>, data |-> <<0, 1, 2>>],
                  [ndim |-> 2, shape |-> <<1, 4>>, data |-> << <<0, 1, 2, 0>> >>] } :
          Start([GoodCall EXCEPT !.mesh_facets = f])

\* every step of the call but the generator's
Steps ==
    \/ Validate
    \/ AssembleMeshFacet
    \/ AssembleBoundaryFacet
    \/ BuildSwitchBuffer
    \/ EnsureFlags
    \/ Populate
    \/ EnterExtractor
    \/ CountStep
    \/ Allocate
    \/ FillStep
    \/ Reconcile
    \/ SkipBoundary
    \/ Finish

\* the arguments varied, the generator's output one of two
Init == StartFacets \/ StartLoops \/ StartMarkers \/ StartSwitches \/ StartShapes
Next == Steps \/ GeneratorThrows \/ ReturnsTypical
Spec == Init /\ [][Next]_vars

\* the generator's output varied, the arguments valid
InitOut ==
    \E k \in { "str", "array" }, c \in BOOLEAN :
        Start([GoodCall EXCEPT !.tetgen_switches = [kind |-> k, data |-> <<112>>],
                               !.compute_boundary_faces = c])
NextOut == Steps \/ GeneratorThrows \/ ReturnsPresence \/ ReturnsOther
              \/ ReturnsAdjacency \/ ReturnsFaces
SpecOut == InitOut /\ [][NextOut]_vars

---------------------------------------------------------------------------
(* Properties: input validation and the facet list *)

\* the generator has been called or the call has ended
AfterInvocation == pc \in {"populate", "boundary", "pass1", "pass2", "tail", "done"}
                     \/ (pc = "error" /\ invoked > 0)

\* the input passes every check the claim lists; N and M are the row counts of
\* well-shaped (N,3) and (M,3) arrays
C1_Passes ==
    /\ input.vertices.ndim = 2 /\ input.vertices.shape[2] = 3
    /\ input.mesh_facets.ndim = 2 /\ input.mesh_facets.shape[2] = 3
    /\ LET N == input.vertices.shape[1]
           M == input.mesh_facets.shape[1]
           loops == input.boundary_facets
       IN
         /\ N > 0
         /\ \A r \in 1..M : \A k \in 1..3 :
                0 <= input.mesh_facets.data[r][k] /\ input.mesh_facets.data[r][k] < N
         /\ \A p \in 1..Len(loops) : \A j \in 1..Len(loops[p]) :
                0 <= loops[p][j] /\ loops[p][j] < N
         /\ \A p \in 1..Len(loops) : Len(loops[p]) >= 3
         /\ Len(loops) >= 1
         /\ \/ input.mesh_facet_markers.kind = "none"
            \/ /\ input.mesh_facet_markers.ndim = 1
               /\ input.mesh_facet_markers.shape[1] = M
         /\ input.tetgen_switches.kind \in {"str", "bytes", "array"}

\* C1: the generator is called, exactly once, if and only if the input passes
\* every check (N > 0, all mesh facet and boundary loop indices in [0, N), every
\* loop of at least 3 vertices, at least one loop, a marker array of length M, a
\* payload that is text, bytes or a byte array); for any other input the call ends
\* in an error, the generator is never called and no result is returned.
C1_GeneratorCalledIffInputValid ==
    /\ invoked <= 1
    /\ invoked = 1 => C1_Passes
    /\ (C1_Passes /\ (AfterInvocation \/ pc = "error")) => invoked = 1
    /\ ~C1_Passes =>
          /\ invoked = 0
          /\ pc \in {"check", "facets", "error"}
          /\ pc = "error" => err # ""
          /\ pc # "error" => ENABLED Steps

\* a mesh facet index equal to N was rejected before any call of the generator
C1_Witness ==
    /\ pc = "error"
    /\ invoked = 0
    /\ input.vertices.ndim = 2 /\ input.vertices.shape[2] = 3
    /\ input.mesh_facets.ndim = 2 /\ input.mesh_facets.shape[2] = 3
    /\ input.vertices.shape[1] > 0
    /\ \E r \in 1..input.mesh_facets.shape[1] : \E k \in 1..3 :
          input.mesh_facets.data[r][k] = input.vertices.shape[1]

\* C2: every marker of the facet marker list is -1, >= 1 or <= -2; the markers of
\* the M mesh facets are never <= -2; the markers <= -2 are exactly those of the B
\* boundary loops and decode one-to-one onto 0..B-1 by index = -(marker) - 2.
\* Stated for every 32-bit raw marker, the largest included.
C2_MarkerNamespacesDisjoint ==
    pc = "invoke" =>
      LET M == NumFacets(input)
          B == NumLoops(input)
          mk == facetmarkerlist
      IN
        /\ Len(mk) = M + B
        /\ \A k \in 1..Len(mk) : mk[k] = -1 \/ mk[k] >= 1 \/ mk[k] <= -2
        /\ \A k \in 1..M : ~(mk[k] <= -2)
        /\ {k \in 1..Len(mk) : mk[k] <= -2} = (M + 1)..(M + B)
        /\ \A p \in 0..(B - 1) : -(mk[M + p + 1] + 2) = p

\* C3: the facet list has M + B facets; facet fi is mesh triangle fi in input
\* order with marker raw+1 (marker array given, raw >= 0) or -1 (raw < 0, or no
\* marker array); facet M+bi is boundary loop bi in input order with marker -(bi+2).
C3_FacetListLayout ==
    pc = "invoke" =>
      LET M == NumFacets(input)
          B == NumLoops(input)
          given == input.mesh_facet_markers.kind # "none"
      IN
        /\ Len(facetlist) = M + B
        /\ Len(facetmarkerlist) = M + B
        /\ \A f \in 1..M :
              /\ facetlist[f] = input.mesh_facets.data[f]
              /\ IF given /\ input.mesh_facet_markers.data[f] >= 0
                   THEN /\ facetmarkerlist[f] >= 1
                        /\ facetmarkerlist[f] - 1 = input.mesh_facet_markers.data[f]
                   ELSE facetmarkerlist[f] = -1
        /\ \A p \in 1..B :
              /\ facetlist[M + p] = input.boundary_facets[p]
              /\ facetmarkerlist[M + p] = -(p + 1)

\* C4: with the derive-boundary-faces flag true, the NUL-terminated string the
\* generator reads is the payload's bytes in order, then 'n' if the payload had no
\* 'n', then 'f' if it had no 'f'; so it has both flags.  Stated for every payload,
\* one holding a zero byte before its end included.
C4_BothFlagsReachGenerator ==
    (pc = "invoke" /\ input.compute_boundary_faces) =>
      LET d == input.tetgen_switches.data
          read == CString(sw)
          had(c) == \E k \in 1..Len(d) : d[k] = c
          want == d \o (IF had(CharN) THEN <<>> ELSE <<CharN>>)
                    \o (IF had(CharF) THEN <<>> ELSE <<CharF>>)
      IN
        /\ read = want
        /\ \E k \in 1..Len(read) : read[k] = CharN
        /\ \E k \in 1..Len(read) : read[k] = CharF

---------------------------------------------------------------------------
(* Properties: the result aggregate *)

\* a field holds an array (of any size), as opposed to None
Present(a) == a.kind = "array"

\* the generator produced Output Faces and markers for them
OutputFacesAndMarkers ==
    out.numberoftrifaces > 0 /\ ~out.trifacelist.null /\ ~out.trifacemarkerlist.null

\* C5: in a returned result, if adjacency is absent or derivation was not asked
\* for, boundary faces and their markers are both absent; if adjacency is present
\* and derivation was asked for, boundary faces are present and their markers are
\* present exactly when the generator's Output Faces and face markers both are;
\* markers are never present without faces, and when both are present they have
\* the same length.
C5_BoundaryPresence ==
    pc = "done" =>
      LET adj == res.neighbors.kind # "none"
          req == input.compute_boundary_faces
          bf == res.boundary_tri_faces
          bm == res.boundary_tri_markers
      IN
        /\ bf.kind \in {"array", "none"}
        /\ bm.kind \in {"array", "none"}
        /\ (~adj \/ ~req) => (bf.kind = "none" /\ bm.kind = "none")
        /\ (adj /\ req) => /\ bf.kind = "array"
                           /\ (bm.kind = "array") <=> OutputFacesAndMarkers
        /\ bm.kind = "array" => bf.kind = "array"
        /\ (bm.kind = "array" /\ bf.kind = "array") => bf.shape[1] = bm.shape[1]

\* boundary faces were derived while the generator gave no face markers: the
\* faces are returned and their markers are None
C5_Witness ==
    /\ pc = "done"
    /\ input.compute_boundary_faces
    /\ res.neighbors.kind = "array"
    /\ res.boundary_tri_faces.kind = "array"
    /\ res.boundary_tri_faces.shape[1] > 0
    /\ res.boundary_tri_markers.kind = "none"
    /\ out.numberoftrifaces > 0 /\ ~out.trifacelist.null

\* two triples hold the same three vertex indices, in any order
SameCorners(s, t) ==
    \A v \in {s[1], s[2], s[3], t[1], t[2], t[3]} :
        Cardinality({k \in 1..3 : s[k] = v}) = Cardinality({k \in 1..3 : t[k] = v})

\* C6: with Output Faces and their markers present, the marker of a derived
\* boundary face is that of the last Output Face (in generator order) with the same
\* three vertex indices in any order, and 0 when there is none; so two boundary
\* faces that are permutations of the same three indices get the same marker.
C6_MarkerByCornerSet ==
    (pc = "done" /\ res.boundary_tri_markers.kind = "array") =>
      LET bf == res.boundary_tri_faces.data
          bm == res.boundary_tri_markers.data
          hits(f) == {r \in 1..out.numberoftrifaces : SameCorners(TrifaceRow(out, r - 1), f)}
          last(S) == CHOOSE r \in S : \A q \in S : q <= r
      IN
        /\ Len(bm) = Len(bf)
        /\ \A r \in 1..Len(bf) :
              bm[r] = IF hits(bf[r]) = {} THEN 0
                      ELSE out.trifacemarkerlist.data[last(hits(bf[r]))]
        /\ \A r \in 1..Len(bf) : \A q \in 1..Len(bf) :
              SameCorners(bf[r], bf[q]) => bm[r] = bm[q]

\* two boundary faces wound differently over the same corners got the marker of
\* the later of two Output Faces over those corners, whose markers differ
C6_Witness ==
    /\ pc = "done"
    /\ res.boundary_tri_markers.kind = "array"
    /\ out.numberoftrifaces = 2
    /\ SameCorners(TrifaceRow(out, 0), TrifaceRow(out, 1))
    /\ out.trifacemarkerlist.data[1] # out.trifacemarkerlist.data[2]
    /\ \E r \in 1..Len(res.boundary_tri_faces.data) :
       \E q \in 1..Len(res.boundary_tri_faces.data) :
          /\ res.boundary_tri_faces.data[r] # res.boundary_tri_faces.data[q]
          /\ SameCorners(res.boundary_tri_faces.data[r], res.boundary_tri_faces.data[q])
          /\ SameCorners(res.boundary_tri_faces.data[r], TrifaceRow(out, 1))
          /\ res.boundary_tri_faces.data[r] # TrifaceRow(out, 1)
          /\ res.boundary_tri_faces.data[q] # TrifaceRow(out, 1)
          /\ res.boundary_tri_markers.data[r] = out.trifacemarkerlist.data[2]

\* the (tetrahedron, local face) pairs, 0-based, whose adjacency entry is negative
BoundaryPairs ==
    { p \in (0..(Len(res.neighbors.data) - 1)) \X (0..3) :
        res.neighbors.data[p[1] + 1][p[2] + 1] < 0 }
\* how many boundary pairs come before p in (tetrahedron, local face) order
PairsBefore(p) ==
    Cardinality({ q \in BoundaryPairs : q[1] < p[1] \/ (q[1] = p[1] /\ q[2] < p[2]) })
\* the Local Face Pattern table as the specification gives it
PatternOf(l) == CASE l = 0 -> <<1, 2, 3>> [] l = 1 -> <<0, 3, 2>>
                  [] l = 2 -> <<0, 1, 3>> [] l = 3 -> <<0, 2, 1>>
\* rows is the list of boundary faces in ascending (tetrahedron, local face) order
InPairOrder(rows) ==
    /\ Len(rows) = Cardinality(BoundaryPairs)
    /\ \A p \in BoundaryPairs :
          LET tet == res.tets.data[p[1] + 1]
              row == rows[PairsBefore(p) + 1]
          IN /\ row = << tet[PatternOf(p[2])[1] + 1], tet[PatternOf(p[2])[2] + 1],
                         tet[PatternOf(p[2])[3] + 1] >>
             /\ Cardinality({tet[1], tet[2], tet[3], tet[4]}) = 4
                   => \A k \in 1..3 : row[k] # tet[p[2] + 1]

\* C7: the boundary faces compute_boundary_face_tris returns, and the result
\* stores unchanged, are one row per (tetrahedron, local face) pair with a negative
\* adjacency entry, in ascending order of the pair; the row of (i, lf) is the
\* tetrahedron's corners in Local Face Pattern order for lf and so leaves out
\* corner lf.  The rows are thereby a function of the tetrahedra and adjacency
\* alone: two runs over the same arrays give the same rows in the same order.
C7_BoundaryFaceOrder ==
    /\ (pc = "pass2" /\ bfi = bfT) => InPairOrder(faces)
    /\ (pc \in {"tail", "done"} /\ res.boundary_tri_faces.kind = "array") =>
          /\ InPairOrder(res.boundary_tri_faces.data)
          /\ res.boundary_tri_faces.data = faces
          /\ res.boundary_tri_faces.shape = <<Len(faces), 3>>

\* faces of two tetrahedra were returned, some local faces having a neighbour
C7_Witness ==
    /\ pc = "done"
    /\ res.boundary_tri_faces.kind = "array"
    /\ \E p \in BoundaryPairs : \E q \in BoundaryPairs :
          p[1] = 0 /\ q[1] = 1 /\ q[2] = 1 /\ PairsBefore(q) > 1
    /\ Cardinality(BoundaryPairs) < 4 * Len(res.neighbors.data)
    /\ res.boundary_tri_markers.kind = "array"

\* C8: for every successful generator run, whatever corner count c the generator
\* reports and whatever the derive-boundary-faces flag, a result is returned whose
\* tetrahedra array has c columns and whose corner-count field is c.  Stated here
\* for the runs that report at least one tetrahedron.
C8_AnyCornerCountReturned ==
    ( /\ invoked = 1
      /\ err # "TetGen failed"
      /\ pc \in {"error", "done"}
      /\ out.numberoftetrahedra > 0 /\ ~out.tetrahedronlist.null ) =>
        /\ pc = "done"
        /\ res.corners = out.numberofcorners
        /\ res.tets.ndim = 2
        /\ res.tets.shape[2] = out.numberofcorners

\* field f of the result is a non-empty array when has holds, None otherwise
PresentExactlyWhen(f, has) ==
    IF has THEN f.kind = "array" /\ f.shape[1] > 0 ELSE f.kind = "none"

\* C9: every field of a returned result is a present container exactly when the
\* generator's buffer for it is non-null and its count is > 0, and the explicit
\* absent value otherwise; none is an empty-but-present container.
C9_PresentIffBufferAndCount ==
    pc = "done" =>
      /\ PresentExactlyWhen(res.points, ~out.pointlist.null /\ out.numberofpoints > 0)
      /\ PresentExactlyWhen(res.tets,
            ~out.tetrahedronlist.null /\ out.numberoftetrahedra > 0)
      /\ PresentExactlyWhen(res.tri_faces,
            ~out.trifacelist.null /\ out.numberoftrifaces > 0)
      /\ PresentExactlyWhen(res.tri_markers,
            ~out.trifacemarkerlist.null /\ out.numberoftrifaces > 0)
      /\ PresentExactlyWhen(res.edges, ~out.edgelist.null /\ out.numberofedges > 0)
      /\ PresentExactlyWhen(res.edge_markers,
            ~out.edgemarkerlist.null /\ out.numberofedges > 0)
      /\ PresentExactlyWhen(res.neighbors,
            ~out.neighborlist.null /\ out.numberoftetrahedra > 0)
      /\ PresentExactlyWhen(res.point_markers,
            ~out.pointmarkerlist.null /\ out.numberofpoints > 0)
      /\ PresentExactlyWhen(res.tet_attr,
            /\ ~out.tetrahedronattributelist.null
            /\ out.numberoftetrahedronattributes > 0
            /\ out.numberoftetrahedra > 0)
      /\ PresentExactlyWhen(res.tet_vol,
            ~out.tetrahedronvolumelist.null /\ out.numberoftetrahedra > 0)

\* the pairs walked before the current position (bfi, bflf) of a pass
PairsWalked ==
    { p \in BoundaryPairs : p[1] < bfi \/ (p[1] = bfi /\ p[2] < bflf) }

\* C10: the count B of the first pass is the number of pairs with a negative
\* adjacency entry and sizes the output; in the second pass the write index is
\* below B at every write, the rows below it are written and those from it on are
\* not, and it equals B when the pass ends: no row is written twice, none is left
\* unwritten, none past the end.
C10_TwoPassSizing ==
    /\ ~oob
    /\ pc = "pass1" => bfB = Cardinality(PairsWalked)
    /\ pc = "pass2" =>
          /\ bfB = Cardinality(BoundaryPairs)
          /\ Len(faces) = bfB
          /\ bfb = Cardinality(PairsWalked)
          /\ \A r \in 1..Len(faces) : (Len(faces[r]) = 3) <=> (r <= bfb)
          /\ (bfi < bfT /\ res.neighbors.data[bfi + 1][bflf + 1] < 0) => bfb < bfB
          /\ bfi = bfT => bfb = bfB

\* the second pass ended with several rows written, some pairs having a neighbour
C10_Witness ==
    /\ pc = "pass2"
    /\ bfi = bfT
    /\ bfT = 2
    /\ bfb = bfB
    /\ bfB >= 2
    /\ bfB < 4 * bfT
    /\ \A r \in 1..Len(faces) : Len(faces[r]) = 3

====
